---- MODULE Spec2Model ----
(***************************************************************************)
(* Bounded random redirector (src/index.js).                               *)
(*                                                                         *)
(* JavaScript strings are modelled as sequences of one-character strings,  *)
(* so that parseInt, toString, join and the template literal of            *)
(* buildRedirectURL are computed character by character.  Time is counted  *)
(* in seconds.  Every page load creates a page context of its own (a tab   *)
(* or a reload); all contexts of the origin share localStorage.            *)
(***************************************************************************)
EXTENDS Integers, Sequences, FiniteSets, TLC

\* ------------------------------------------------------------- bounds

\* Number of page loads (page contexts) a behaviour may contain.
MaxLoads == 5

\* Number of times the clock advances.
MaxTicks == 2

\* ------------------------------------------------- program constants

\* const maxRedirects = 3
maxRedirects == 3

\* setTimeout(..., 10 * 1000): the reset delay, in seconds
resetDelay == 10

\* The clock is observed every half reset delay.
TickSeconds == resetDelay \div 2

\* const storageKey = 'randomRedirectCount'
storageKey == "randomRedirectCount"

domainConfig ==
    [ topLevelDomains |-> <<
        <<"e", "x", "a", "m", "p", "l", "e", ".", "c", "o", "m">>,
        <<"d", "e", "m", "o", ".", "o", "r", "g">>,
        <<"m", "y", "s", "i", "t", "e", ".", "n", "e", "t">>,
        <<"p", "r", "o", "d", "u", "c", "t", ".", "i", "o">> >>,
      subDomainPrefixes |-> <<
        <<"w", "w", "w">>,
        <<"b", "l", "o", "g">>,
        <<"a", "p", "p">>,
        <<"w", "e", "b">>,
        <<"d", "e", "v">>,
        <<"a", "p", "i">>,
        <<"b", "e", "t", "a">>,
        <<"a", "l", "p", "h", "a">>,
        <<"t", "e", "s", "t">>,
        <<"s", "t", "o", "r", "e">>,
        <<"s", "h", "o", "p">>,
        <<"c", "d", "n">>,
        <<"i", "m", "a", "g", "e">>,
        <<"d", "a", "t", "a">>,
        <<"s", "t", "a", "t", "i", "c">>,
        <<"r", "e", "p", "o", "r", "t">>,
        <<"a", "d", "m", "i", "n">>,
        <<"p", "a", "n", "e", "l">>,
        <<"u", "s", "e", "r">>,
        <<"m", "e", "m", "b", "e", "r">>,
        <<"s", "e", "r", "v", "i", "c", "e">> >>,
      subDomainRandomLength |-> [min |-> 3, max |-> 6],
      includeWwwAsSpecial |-> TRUE ]

\* const characters = 'abcdefghijklmnopqrstuvwxyz0123456789'
characters ==
    <<"a", "b", "c", "d", "e", "f", "g", "h", "i", "j", "k", "l", "m",
      "n", "o", "p", "q", "r", "s", "t", "u", "v", "w", "x", "y", "z",
      "0", "1", "2", "3", "4", "5", "6", "7", "8", "9">>

\* ------------------------------------------------------ JS primitives

Digits == <<"0", "1", "2", "3", "4", "5", "6", "7", "8", "9">>

IsDigit(c) == \E i \in DOMAIN Digits : Digits[i] = c

DigitValue(c) == (CHOOSE i \in DOMAIN Digits : Digits[i] = c) - 1

WhiteSpace == {" ", "\t", "\n", "\r"}

\* Number.prototype.toString(): the decimal digits, with a sign when negative.
RECURSIVE toString(_)
toString(n) ==
    IF n < 0 THEN <<"-">> \o toString(-n)
    ELSE IF n < 10 THEN <<Digits[n + 1]>>
    ELSE toString(n \div 10) \o <<Digits[(n % 10) + 1]>>

RECURSIVE SkipWhiteSpace(_)
SkipWhiteSpace(s) ==
    IF s # <<>> /\ Head(s) \in WhiteSpace THEN SkipWhiteSpace(Tail(s)) ELSE s

RECURSIVE DigitPrefix(_)
DigitPrefix(s) ==
    IF s # <<>> /\ IsDigit(Head(s)) THEN <<Head(s)>> \o DigitPrefix(Tail(s)) ELSE <<>>

RECURSIVE DecimalValue(_)
DecimalValue(ds) ==
    IF ds = <<>> THEN 0
    ELSE DecimalValue(SubSeq(ds, 1, Len(ds) - 1)) * 10 + DigitValue(ds[Len(ds)])

NaN == [nan |-> TRUE, val |-> 0]

\* parseInt(s, 10): leading white space is skipped, one sign is accepted, then
\* the longest run of decimal digits is read; with no digit the result is NaN.
parseInt(s) ==
    LET t == SkipWhiteSpace(s)
        signed == t # <<>> /\ Head(t) \in {"+", "-"}
        body == IF signed THEN Tail(t) ELSE t
        ds == DigitPrefix(body)
        sign == IF signed /\ Head(t) = "-" THEN -1 ELSE 1
    IN  IF ds = <<>> THEN NaN ELSE [nan |-> FALSE, val |-> sign * DecimalValue(ds)]

\* a < b for a number a that may be NaN: every comparison with NaN is false.
LessThan(a, b) == ~a.nan /\ a.val < b

\* A value that may be null: <<>> is null, <<v>> is the value v.
null == <<>>

\* x || d for a string-or-null x: null and the empty string are falsy.
OrElse(x, d) == IF x = null \/ x[1] = <<>> THEN d ELSE x[1]

\* localStorage.getItem(key)
getItem(ls, key) == IF key \in DOMAIN ls THEN <<ls[key]>> ELSE null

\* localStorage with key set to value
putItem(ls, key, value) ==
    [k \in DOMAIN ls \cup {key} |-> IF k = key THEN value ELSE ls[k]]

\* localStorage.removeItem(key)
removeItem(ls, key) == [k \in DOMAIN ls \ {key} |-> ls[k]]

\* An empty localStorage.
EmptyStorage == [k \in {} |-> <<>>]

\* String.prototype.charAt(i): the empty string when i is out of range.
charAt(s, i) == IF i + 1 \in DOMAIN s THEN <<s[i + 1]>> ELSE <<>>

\* Array.prototype.splice(index, 0, item)
splice(arr, index, item) ==
    SubSeq(arr, 1, index) \o <<item>> \o SubSeq(arr, index + 1, Len(arr))

\* Array.prototype.join(sep)
RECURSIVE join(_, _)
join(parts, sep) ==
    IF parts = <<>> THEN <<>>
    ELSE IF Len(parts) = 1 THEN parts[1]
    ELSE parts[1] \o sep \o join(Tail(parts), sep)

\* ------------------------------------------------------- Math.random

\* A draw of Math.random() is a rational num/den in [0, 1).
Rat(n, d) == [num |-> n, den |-> d]

\* The draws the model enumerates: the two ends of [0, 1).
RandomValues == {Rat(0, 100), Rat(99, 100)}

\* Math.floor(r * n)
FloorTimes(r, n) == (r.num * n) \div r.den

\* r > q and r < q for rationals
Greater(r, q) == r.num * q.den > q.num * r.den

Less(r, q) == r.num * q.den < q.num * r.den

\* ------------------------------------------------------ URL building
\* Every generator takes the stream of coming draws and returns its value
\* together with the rest of the stream.

RECURSIVE RandomStringLoop(_, _, _, _)
RandomStringLoop(i, length, result, rnd) ==
    IF i < length
    THEN RandomStringLoop(i + 1, length,
             result \o charAt(characters, FloorTimes(Head(rnd), Len(characters))),
             Tail(rnd))
    ELSE [value |-> result, rnd |-> rnd]

generateRandomString(length, rnd) == RandomStringLoop(0, length, <<>>, rnd)

\* The separator generateRandomSubdomain joins its parts with.
subDomainSeparator == <<"-">>

generateRandomSubdomainWith(sep, rnd) ==
    LET prefixes == domainConfig.subDomainPrefixes
        min == domainConfig.subDomainRandomLength.min
        max == domainConfig.subDomainRandomLength.max
        randomPrefix == prefixes[FloorTimes(rnd[1], Len(prefixes)) + 1]
        parts1 == <<randomPrefix>>
        rnd1 == Tail(rnd)
        addRandom == Greater(rnd1[1], Rat(3, 10))
        rnd2 == Tail(rnd1)
        randomLength == FloorTimes(rnd2[1], max - min + 1) + min
        str == generateRandomString(randomLength, Tail(rnd2))
        parts2 == IF addRandom THEN Append(parts1, str.value) ELSE parts1
        rnd3 == IF addRandom THEN str.rnd ELSE rnd2
        \* includeWwwAsSpecial && Math.random() < 0.2 draws only when the flag is set
        addWww == domainConfig.includeWwwAsSpecial /\ Less(rnd3[1], Rat(2, 10))
        rnd4 == IF domainConfig.includeWwwAsSpecial THEN Tail(rnd3) ELSE rnd3
        wwwIndex == FloorTimes(rnd4[1], Len(parts2) + 1)
        parts3 == IF addWww THEN splice(parts2, wwwIndex, <<"w", "w", "w">>) ELSE parts2
        rnd5 == IF addWww THEN Tail(rnd4) ELSE rnd4
    IN  [value |-> join(parts3, sep), rnd |-> rnd5]

generateRandomSubdomain_dots(rnd) == generateRandomSubdomainWith(<<".">>, rnd)

generateRandomSubdomain(rnd) == generateRandomSubdomainWith(subDomainSeparator, rnd)

getRandomTopLevelDomain(rnd) ==
    LET topDomains == domainConfig.topLevelDomains
    IN  [value |-> topDomains[FloorTimes(rnd[1], Len(topDomains)) + 1], rnd |-> Tail(rnd)]

buildRedirectURL(rnd) ==
    LET sub == generateRandomSubdomain(rnd)
        top == getRandomTopLevelDomain(sub.rnd)
        protocol == IF Greater(top.rnd[1], Rat(5, 10))
                    THEN <<"h", "t", "t", "p", "s">> ELSE <<"h", "t", "t", "p">>
    IN  protocol \o <<":", "/", "/">> \o sub.value \o <<".">> \o top.value

\* The most draws one call of buildRedirectURL consumes: prefix, add-random,
\* length, the characters, add-www, www index, top-level domain, protocol.
DrawsPerURL == 7 + domainConfig.subDomainRandomLength.max

\* ------------------------------------------------------------- state

VARIABLES
    localStorage,   \* the origin's localStorage: a function from keys to strings
    now,            \* the clock, in seconds
    pages,          \* per page context: position, navigation, liveness, effects
    timers,         \* per page context: the reset timer its load scheduled
    draws,          \* the coming values of Math.random() (URL building)
    url             \* the last result of buildRedirectURL: null or <<string>>

vars == <<localStorage, now, pages, timers, draws, url>>

Pages == 1 .. MaxLoads

\* A page context whose DOMContentLoaded has not fired yet.
IdlePage == [pc |-> "Idle", nav |-> "none", alive |-> FALSE, effects |-> <<>>]

NoTimer == [status |-> "none", due |-> 0]

\* What window.location.replace does: it throws, or it starts the navigation.
NavOutcomes == {"threw", "started"}

\* The handler's view of the world while it runs in one page context.
World(p) ==
    [ localStorage |-> localStorage,
      timer |-> timers[p],
      pc |-> "Checking",
      nav |-> "none",
      effects |-> <<>> ]

\* ---------------------------------------------------------- the handler

setItem_otherKey(w, key, value) ==
    [w EXCEPT !.localStorage = putItem(@, "redirectCount", value),
              !.effects = Append(@, "setItem")]

\* localStorage.setItem(key, value)
setItem(w, key, value) ==
    [w EXCEPT !.localStorage = putItem(@, key, value),
              !.effects = Append(@, "setItem")]

\* setTimeout(callback, delay) called at time t: the callback may run from
\* t + delay on.
setTimeout(w, delay, t) ==
    [w EXCEPT !.timer = [status |-> "pending", due |-> t + delay],
              !.effects = Append(@, "setTimeout")]

performRedirect_fallback(w, outcome) ==
    LET w1 == [w EXCEPT !.effects = Append(@, "console.log")]
    IN  IF outcome = "threw"
        THEN [w1 EXCEPT !.effects = @ \o <<"replace", "console.error", "replace">>,
                        !.nav = "started"]
        ELSE [w1 EXCEPT !.effects = Append(@, "replace"), !.nav = "started"]

\* performRedirect(): log, then window.location.replace(targetURL) inside
\* try/catch.  The target is the value of buildRedirectURL; it has no part in
\* the counter, and is examined on its own under URLSpec.
performRedirect(w, outcome) ==
    LET w1 == [w EXCEPT !.effects = Append(@, "console.log")]
    IN  IF outcome = "threw"
        THEN [w1 EXCEPT !.effects = @ \o <<"replace", "console.error">>,
                        !.nav = "threw"]
        ELSE [w1 EXCEPT !.effects = Append(@, "replace"), !.nav = "started"]

secureRedirect_lessOrEqual(w, t, outcome) ==
    LET redirectCount == parseInt(OrElse(getItem(w.localStorage, storageKey), <<"0">>))
    IN  IF ~redirectCount.nan /\ redirectCount.val <= maxRedirects
        THEN performRedirect(
                 setTimeout(
                     setItem([w EXCEPT !.pc = "Redirecting"],
                             storageKey, toString(redirectCount.val + 1)),
                     resetDelay, t),
                 outcome)
        ELSE [w EXCEPT !.pc = "Blocked", !.effects = Append(@, "console.warn")]

secureRedirect_fallbackPage(w, t, outcome) ==
    LET redirectCount == parseInt(OrElse(getItem(w.localStorage, storageKey), <<"0">>))
    IN  IF LessThan(redirectCount, maxRedirects)
        THEN performRedirect(
                 setTimeout(
                     setItem([w EXCEPT !.pc = "Redirecting"],
                             storageKey, toString(redirectCount.val + 1)),
                     resetDelay, t),
                 outcome)
        ELSE [w EXCEPT !.pc = "Blocked", !.nav = "started",
                       !.effects = @ \o <<"console.warn", "replace">>]

secureRedirect_redirectFirst(w, t, outcome) ==
    LET redirectCount == parseInt(OrElse(getItem(w.localStorage, storageKey), <<"0">>))
    IN  IF LessThan(redirectCount, maxRedirects)
        THEN setTimeout(
                 setItem(performRedirect([w EXCEPT !.pc = "Redirecting"], outcome),
                         storageKey, toString(redirectCount.val + 1)),
                 resetDelay, t)
        ELSE [w EXCEPT !.pc = "Blocked", !.effects = Append(@, "console.warn")]

\* secureRedirect() called at time t: read the counter, and below the maximum
\* write counter + 1, schedule the reset and redirect; otherwise warn.
secureRedirect(w, t, outcome) ==
    LET redirectCount == parseInt(OrElse(getItem(w.localStorage, storageKey), <<"0">>))
    IN  IF LessThan(redirectCount, maxRedirects)
        THEN performRedirect(
                 setTimeout(
                     setItem([w EXCEPT !.pc = "Redirecting"],
                             storageKey, toString(redirectCount.val + 1)),
                     resetDelay, t),
                 outcome)
        ELSE [w EXCEPT !.pc = "Blocked", !.effects = Append(@, "console.warn")]

\* ------------------------------------------------------------- actions

\* DOMContentLoaded fires in a new page context p: secureRedirect runs to its
\* end.  Contexts are numbered in the order they load.
Load(p) ==
    /\ pages[p].pc = "Idle"
    /\ \A q \in Pages : q < p => pages[q].pc # "Idle"
    /\ \E outcome \in NavOutcomes :
         LET w == secureRedirect(World(p), now, outcome)
         IN  /\ localStorage' = w.localStorage
             /\ timers' = [timers EXCEPT ![p] = w.timer]
             /\ pages' = [pages EXCEPT ![p] =
                    [pc |-> w.pc, nav |-> w.nav, alive |-> TRUE, effects |-> w.effects]]
    /\ UNCHANGED <<now, draws, url>>

\* The reset callback of page p runs: () => localStorage.removeItem(storageKey).
\* It runs no earlier than its delay, and only while its page context lives.
\* A timer that ran keeps no due time.
FireTimer(p) ==
    /\ timers[p].status = "pending"
    /\ pages[p].alive
    /\ now >= timers[p].due
    /\ localStorage' = removeItem(localStorage, storageKey)
    /\ timers' = [timers EXCEPT ![p] = [status |-> "fired", due |-> 0]]
    /\ UNCHANGED <<now, pages, draws, url>>

\* The navigation page p started commits: the document is unloaded and its
\* pending timer is discarded with it.  (An unload after the timer ran leaves
\* nothing behind that a later step reads, and is not a step of the model.)
Unload(p) ==
    /\ pages[p].alive
    /\ pages[p].nav = "started"
    /\ timers[p].status = "pending"
    /\ pages' = [pages EXCEPT ![p].alive = FALSE]
    /\ timers' = [timers EXCEPT ![p].status =
                      IF @ = "pending" THEN "discarded" ELSE @]
    /\ UNCHANGED <<localStorage, now, draws, url>>

\* The storage of the origin is cleared from outside the program.
ExternalClear ==
    /\ storageKey \in DOMAIN localStorage
    /\ localStorage' = EmptyStorage
    /\ UNCHANGED <<now, pages, timers, draws, url>>

\* The clock advances by one step.
Tick ==
    /\ now < MaxTicks * TickSeconds
    /\ now' = now + TickSeconds
    /\ UNCHANGED <<localStorage, pages, timers, draws, url>>

\* buildRedirectURL() is called with the coming draws.
BuildURL ==
    /\ draws # <<>>
    /\ url = null
    /\ url' = <<buildRedirectURL(draws)>>
    /\ UNCHANGED <<localStorage, now, pages, timers, draws>>

\* ------------------------------------------------------ specifications

InitPages ==
    /\ now = 0
    /\ pages = [p \in Pages |-> IdlePage]
    /\ timers = [p \in Pages |-> NoTimer]

\* The counter is absent when the first page loads.
Init ==
    /\ localStorage = EmptyStorage
    /\ InitPages
    /\ draws = <<>>
    /\ url = null

\* Values found under the key when the first page loads.
PreloadedValues ==
    { <<"2">>, <<"3">>, <<"7">>, <<"a", "b", "c">>, <<>> }

InitPreloaded ==
    /\ localStorage \in
         {EmptyStorage} \cup {putItem(EmptyStorage, storageKey, v) : v \in PreloadedValues}
    /\ InitPages
    /\ draws = <<>>
    /\ url = null

InitURL ==
    /\ localStorage = EmptyStorage
    /\ InitPages
    /\ draws \in [1 .. DrawsPerURL -> RandomValues]
    /\ url = null

NextPages ==
    \/ \E p \in Pages : Load(p)
    \/ \E p \in Pages : FireTimer(p)
    \/ \E p \in Pages : Unload(p)
    \/ Tick

Next ==
    \/ NextPages
    \/ ExternalClear

\* Page loads, timers, unloads, the clock and external clearing, from an
\* absent counter.
Spec == Init /\ [][Next]_vars

\* The same without external clearing.
PageSpec == Init /\ [][NextPages]_vars

\* The same as Spec, from a storage that may already hold a value.
PreloadedSpec == InitPreloaded /\ [][Next]_vars

\* buildRedirectURL applied to every stream of draws.
URLSpec == InitURL /\ [][BuildURL]_vars

\* ------------------------------------------------------------ helpers

\* The value stored under the key: null or <<string>>.
Counter == getItem(localStorage, storageKey)

\* The number secureRedirect reads from the storage.
ReadCount == parseInt(OrElse(Counter, <<"0">>))

Loaded(p) == pages[p].pc # "Idle"

\* Page p's DOMContentLoaded handler runs in this step.
LoadStep(p) == pages[p].pc = "Idle" /\ pages'[p].pc # "Idle"

\* How often operation op occurs among the effects e of one load.
Count(e, op) == Cardinality({i \in DOMAIN e : e[i] = op})

\* The place of the first op in e (0 when there is none).
IndexOf(e, op) ==
    IF \E i \in DOMAIN e : e[i] = op
    THEN CHOOSE i \in DOMAIN e : e[i] = op /\ \A j \in DOMAIN e : e[j] = op => i <= j
    ELSE 0

\* Page p called window.location.replace.
Redirected(p) == Count(pages[p].effects, "replace") > 0

\* The catch block of performRedirect ran in page p.
Threw(p) == Count(pages[p].effects, "console.error") > 0

\* Page p wrote the counter less than resetDelay seconds ago: its timer has
\* not run and is not due yet.
Recent(p) ==
    /\ timers[p].status \in {"pending", "discarded"}
    /\ timers[p].due > now

\* A timer of a living page is still to run.
LiveTimer(p) == timers[p].status = "pending" /\ pages[p].alive

Min(a, b) == IF a < b THEN a ELSE b

\* --------------------------------------------------------------- claims

\* C1: from an absent counter, through page loads, reset timers and external
\* clearing, the stored value is absent or the decimal string of an integer
\* in 0 .. maxRedirects.
C1_CounterInRange ==
    \/ Counter = null
    \/ LET v == parseInt(Counter[1])
       IN  /\ ~v.nan
           /\ v.val \in 0 .. maxRedirects
           /\ Counter[1] = toString(v.val)

\* C1 witness: the counter stands at the maximum and a later load was blocked.
C1_Witness ==
    /\ Counter = << <<"3">> >>
    /\ \E p \in Pages : pages[p].pc = "Blocked"
    /\ \E p \in Pages : timers[p].status = "fired"

\* C2: at most maxRedirects redirects are issued in any window of resetDelay
\* seconds.  A window is full at its last redirect, so it is enough to count,
\* in every state, the redirects of the last resetDelay seconds.
C2_AtMostMaxPerWindow ==
    Cardinality({p \in Pages : Redirected(p) /\ Recent(p)}) <= maxRedirects

\* C3: from an absent counter, while the first load's reset delay has not
\* elapsed, N loads leave the counter at min(N, maxRedirects), and the loads
\* after the maxRedirects-th do not navigate.
C3_CounterIsMinOfLoads ==
    LET n == Cardinality({p \in Pages : Loaded(p)})
    IN  (n >= 1 /\ timers[1].status # "fired" /\ now < timers[1].due) =>
            /\ Counter = << toString(Min(n, maxRedirects)) >>
            /\ \A p \in Pages :
                 Loaded(p) =>
                     /\ p <= maxRedirects => Redirected(p)
                     /\ p > maxRedirects => ~Redirected(p)

\* C3 witness: a fourth load in the window, blocked, the counter at 3.
C3_Witness ==
    /\ Cardinality({p \in Pages : Loaded(p)}) = maxRedirects + 1
    /\ now < timers[1].due
    /\ timers[1].status # "fired"
    /\ pages[maxRedirects + 1].pc = "Blocked"
    /\ Counter = << <<"3">> >>

\* C4: a load that finds the counter missing or non-numeric treats it as 0:
\* it navigates and leaves the counter at "1".
C4_MissingOrNonNumericIsZero ==
    [][\A p \in Pages :
         (LoadStep(p) /\ (Counter = null \/ parseInt(Counter[1]).nan)) =>
             /\ Redirected(p)'
             /\ Counter' = << <<"1">> >>]_vars

\* C5: a reset timer removes the counter only when resetDelay seconds have
\* passed since the latest write of the counter by any load.
C5_ResetAfterLatestWrite ==
    [][\A p \in Pages :
         (timers[p].status = "pending" /\ timers'[p].status = "fired"
            /\ Counter # null) =>
             \A q \in Pages : Redirected(q) => ~Recent(q)]_vars

\* C6: once an allowed attempt was made, resetDelay seconds have passed since
\* the last one and no timer is left to run, the next load is attempt 1: it
\* navigates and leaves the counter at "1" (so the counter was absent).
C6_NextLoadIsAttemptOne ==
    [][\A p \in Pages :
         (/\ LoadStep(p)
          /\ \E q \in Pages : Redirected(q)
          /\ \A q \in Pages : ~Recent(q) /\ ~LiveTimer(q)) =>
             /\ Redirected(p)'
             /\ Counter' = << <<"1">> >>]_vars

\* C7: when the navigation call throws, the load still leaves counter + 1 in
\* the storage and its reset timer scheduled, has called replace exactly once,
\* and the page stays as it is from then on, its timer running at most.
C7_ThrowIsSwallowed ==
    [][\A p \in Pages :
         /\ (LoadStep(p) /\ Threw(p)') =>
                /\ Counter' = << toString(ReadCount.val + 1) >>
                /\ timers'[p] = [status |-> "pending", due |-> now + resetDelay]
                /\ pages'[p].alive
                /\ Count(pages'[p].effects, "replace") = 1
         /\ Threw(p) =>
                /\ pages'[p] = pages[p]
                /\ timers'[p] = timers[p] \/ timers'[p].status = "fired"]_vars

\* C7 witness: a page whose navigation threw is still there, its timer
\* pending and the counter it wrote in the storage.
C7_Witness ==
    \E p \in Pages :
        /\ Threw(p)
        /\ pages[p].alive
        /\ timers[p].status = "pending"
        /\ now >= timers[p].due
        /\ Counter # null

\* The characters a label may hold: a-z, 0-9 and the hyphen.
LabelChars == {characters[i] : i \in DOMAIN characters} \cup {"-"}

\* u is scheme://label.tld with a scheme of https or http, a tld of the
\* configured list and a non-empty label over LabelChars.
WellFormedURL(u) ==
    \E scheme \in {<<"h", "t", "t", "p", "s">>, <<"h", "t", "t", "p">>} :
      \E i \in DOMAIN domainConfig.topLevelDomains :
        LET tld == domainConfig.topLevelDomains[i]
            head == scheme \o <<":", "/", "/">>
            labelLen == Len(u) - Len(head) - 1 - Len(tld)
        IN  /\ labelLen >= 1
            /\ SubSeq(u, 1, Len(head)) = head
            /\ \A k \in Len(head) + 1 .. Len(head) + labelLen : u[k] \in LabelChars
            /\ u[Len(head) + labelLen + 1] = "."
            /\ SubSeq(u, Len(u) - Len(tld) + 1, Len(u)) = tld

\* C8: every result of buildRedirectURL is scheme://label.tld with scheme
\* https or http, tld of the configured list, and a non-empty label without
\* '.' over [a-z0-9-].
C8_URLWellFormed == url # null => WellFormedURL(url[1])

\* C8 witness: a URL whose label has three parts (prefix, random string and
\* the inserted www).
C8_Witness ==
    /\ url # null
    /\ Count(url[1], "-") = 2
    /\ Count(url[1], "9") >= domainConfig.subDomainRandomLength.max

\* The counter read is a number at or above the maximum.
AtOrAboveMax == ~ReadCount.nan /\ ReadCount.val >= maxRedirects

\* C9: a load that reads a counter at or above the maximum does not navigate,
\* leaves the storage as it is and schedules no timer; and such a counter
\* changes only by being removed, by a step that is no load.
C9_BlockedLoadChangesNothing ==
    [][/\ \A p \in Pages :
            (LoadStep(p) /\ AtOrAboveMax) =>
                /\ pages'[p].pc = "Blocked"
                /\ ~Redirected(p)'
                /\ localStorage' = localStorage
                /\ timers' = timers
       /\ (AtOrAboveMax /\ localStorage' # localStorage) =>
                /\ Counter' = null
                /\ pages' = pages]_vars

\* C9 witness: a preloaded counter above the maximum, still there after a
\* load that was blocked.
C9_Witness ==
    /\ Counter = << <<"7">> >>
    /\ \E p \in Pages : pages[p].pc = "Blocked" /\ timers[p].status = "none"

\* C10: a load ends Redirecting or Blocked.  A redirecting load wrote the
\* counter once, then scheduled one timer, then called replace once; a
\* blocked load did none of the three.
C10_StepOrder ==
    \A p \in Pages :
        Loaded(p) =>
            LET e == pages[p].effects
            IN  \/ /\ pages[p].pc = "Redirecting"
                   /\ Count(e, "setItem") = 1
                   /\ Count(e, "setTimeout") = 1
                   /\ Count(e, "replace") = 1
                   /\ IndexOf(e, "setItem") < IndexOf(e, "setTimeout")
                   /\ IndexOf(e, "setTimeout") < IndexOf(e, "replace")
                \/ /\ pages[p].pc = "Blocked"
                   /\ Count(e, "setItem") = 0
                   /\ Count(e, "setTimeout") = 0
                   /\ Count(e, "replace") = 0

\* C10 witness: one load redirected and another was blocked.
C10_Witness ==
    \E p, q \in Pages :
        /\ pages[p].pc = "Redirecting"
        /\ Redirected(p)
        /\ pages[q].pc = "Blocked"

====
